---- MODULE Spec2Model ----
(***************************************************************************)
(* A model of the LFU cache of src/src/lib.rs: LFUCache<K, V> with its     *)
(* value store, its frequency bins (one LinkedHashSet per count), its      *)
(* capacity and its min_frequency watermark, and one action per public     *)
(* method.  A HashMap is a function on the set of its keys; a              *)
(* LinkedHashSet is a sequence without repetition, front = oldest.         *)
(***************************************************************************)
EXTENDS Integers, Sequences, FiniteSets, TLC

\* ------------------------------------------------------------------ bounds
MaxKey == 3        \* keys are 1..MaxKey
MaxCapacity == 2   \* with_capacity(n) for n in 1..MaxCapacity
MaxCount == 2      \* a key is not used again once its count reached MaxCount

Keys == 1..MaxKey
Capacities == 1..MaxCapacity

\* V is a type parameter the cache never inspects (it stores, overwrites and
\* hands back values): two distinct values tell an overwrite from none.
Values == {"a", "b"}

\* An Option<T> is a set of at most one element.
None == {}
Some(x) == {x}

VARIABLES
    values,         \* HashMap<Rc<K>, ValueCounter<V>>: key -> [value, count]
    frequency_bin,  \* HashMap<usize, LinkedHashSet<Rc<K>>>: count -> sequence of keys
    capacity,       \* usize, fixed by with_capacity
    min_frequency,  \* usize
    panicked,       \* TRUE once a call has panicked (unwrap on None)
    last,           \* the last call: its name, arguments and what it returned
    recency,        \* history: the stored keys, least recently set/get/get_mut first
    track,          \* what else is recorded: "none", "uses" or "handles"
    uses,           \* history of the uses since the last eviction (track = "uses")
    bin_rc          \* which allocation a bin's Rc<K> points to (track = "handles")

vars == <<values, frequency_bin, capacity, min_frequency, panicked, last, recency,
          track, uses, bin_rc>>

\* The cache as one record, the `self` of every method.
self == [values |-> values, frequency_bin |-> frequency_bin,
         capacity |-> capacity, min_frequency |-> min_frequency]

\* ------------------------------------------------- HashMap / LinkedHashSet
\* LinkedHashSet::remove(&key): the other members keep their order.
lhs_remove(s, key) == SelectSeq(s, LAMBDA x : x # key)

\* Faulty variant of insert: the key goes to the front of the order.
lhs_insert_front(s, key) == <<key>> \o lhs_remove(s, key)

\* LinkedHashSet::insert(key): the key goes to the back of the order.
lhs_insert(s, key) == Append(lhs_remove(s, key), key)

\* LinkedHashSet membership.
lhs_contains(s, key) == \E i \in 1..Len(s) : s[i] = key

\* HashMap::remove(&key) on the value store.
map_remove(m, key) == [x \in DOMAIN m \ {key} |-> m[x]]

\* HashMap::insert(key, v).
map_insert(m, key, v) == [x \in DOMAIN m \cup {key} |-> IF x = key THEN v ELSE m[x]]

\* HashMap::entry(key).or_default(): the bin at key, an empty one if there is none.
entry_or_default(m, key) == IF key \in DOMAIN m THEN m[key] ELSE <<>>

\* What a method hands back: the cache after it, whether it panicked, the
\* Option<&V> it returned (ret), the bool it returned (flag), the key evict
\* dropped (evicted).
Outcome(c, p, r, b, e) == [cache |-> c, panic |-> p, ret |-> r, flag |-> b, evicted |-> e]

\* ------------------------------------------------------------ the methods
\* Faulty variant of with_capacity: no check of the capacity.
with_capacity_unchecked(n) ==
    Outcome([values |-> << >>, frequency_bin |-> << >>,
             capacity |-> n, min_frequency |-> 0],
            FALSE, None, FALSE, None)

\* LFUCache::with_capacity. When it panics there is no cache: the fields of
\* the outcome are then those it was about to build, and no method can run.
with_capacity(n) ==
    Outcome([values |-> << >>, frequency_bin |-> << >>,
             capacity |-> n, min_frequency |-> 0],
            n <= 0, None, FALSE, None)

\* LFUCache::len
len(c) == Cardinality(DOMAIN c.values)

\* LFUCache::contains
contains(c, key) == key \in DOMAIN c.values

\* Faulty variant of inc: counts a use twice.
inc_twice(value_counter) == [value_counter EXCEPT !.count = @ + 2]

\* ValueCounter::inc
inc(value_counter) == [value_counter EXCEPT !.count = @ + 1]

\* Faulty variant of update_frequency_bin: min_frequency is never advanced.
update_frequency_bin_no_advance(c, key) ==
    IF key \notin DOMAIN c.values \/ c.values[key].count \notin DOMAIN c.frequency_bin
    THEN Outcome(c, TRUE, None, FALSE, None)
    ELSE LET count == c.values[key].count
             fb1   == [c.frequency_bin EXCEPT ![count] = lhs_remove(@, key)]
         IN Outcome([c EXCEPT
                       !.values = [c.values EXCEPT ![key] = inc(@)],
                       !.frequency_bin = map_insert(fb1, count + 1,
                           lhs_insert(entry_or_default(fb1, count + 1), key))],
                    FALSE, None, FALSE, None)

\* Faulty variant of update_frequency_bin: min_frequency is advanced without
\* looking whether the bin it names became empty.
update_frequency_bin_eager(c, key) ==
    IF key \notin DOMAIN c.values \/ c.values[key].count \notin DOMAIN c.frequency_bin
    THEN Outcome(c, TRUE, None, FALSE, None)
    ELSE LET count == c.values[key].count
             fb1   == [c.frequency_bin EXCEPT ![count] = lhs_remove(@, key)]
         IN Outcome([c EXCEPT
                       !.values = [c.values EXCEPT ![key] = inc(@)],
                       !.min_frequency = IF count = c.min_frequency
                                         THEN c.min_frequency + 1
                                         ELSE c.min_frequency,
                       !.frequency_bin = map_insert(fb1, count + 1,
                           lhs_insert(entry_or_default(fb1, count + 1), key))],
                    FALSE, None, FALSE, None)

\* LFUCache::update_frequency_bin, called with a key of the store.
update_frequency_bin(c, key) ==
    IF key \notin DOMAIN c.values
    THEN Outcome(c, TRUE, None, FALSE, None)
    ELSE LET count == c.values[key].count IN
         IF count \notin DOMAIN c.frequency_bin
         THEN Outcome(c, TRUE, None, FALSE, None)
         ELSE LET bin  == lhs_remove(c.frequency_bin[count], key)
                  fb1  == [c.frequency_bin EXCEPT ![count] = bin]
                  vals == [c.values EXCEPT ![key] = inc(@)]
                  minf == IF count = c.min_frequency /\ bin = <<>>
                          THEN c.min_frequency + 1
                          ELSE c.min_frequency
                  fb2  == map_insert(fb1, count + 1,
                                     lhs_insert(entry_or_default(fb1, count + 1), key))
              IN Outcome([c EXCEPT !.values = vals, !.frequency_bin = fb2,
                                   !.min_frequency = minf],
                         FALSE, None, FALSE, None)

\* Faulty variant of evict: pops the bin and forgets values.remove.
evict_keeps_value(c) ==
    IF c.min_frequency \notin DOMAIN c.frequency_bin
    THEN Outcome(c, TRUE, None, FALSE, None)
    ELSE LET least_frequently_used_keys == c.frequency_bin[c.min_frequency] IN
         IF least_frequently_used_keys = <<>>
         THEN Outcome(c, TRUE, None, FALSE, None)
         ELSE Outcome([c EXCEPT
                         !.frequency_bin[c.min_frequency] = Tail(least_frequently_used_keys)],
                      FALSE, None, FALSE, Some(Head(least_frequently_used_keys)))

\* LFUCache::evict
evict(c) ==
    IF c.min_frequency \notin DOMAIN c.frequency_bin
    THEN Outcome(c, TRUE, None, FALSE, None)
    ELSE LET least_frequently_used_keys == c.frequency_bin[c.min_frequency] IN
         IF least_frequently_used_keys = <<>>
         THEN Outcome(c, TRUE, None, FALSE, None)
         ELSE LET least_recently_used == Head(least_frequently_used_keys) IN
              Outcome([c EXCEPT
                         !.frequency_bin[c.min_frequency] = Tail(least_frequently_used_keys),
                         !.values = map_remove(c.values, least_recently_used)],
                      FALSE, None, FALSE, Some(least_recently_used))

\* Faulty variant of remove: drops the value and leaves the key in its bin.
remove_keeps_bin(c, key) ==
    IF key \in DOMAIN c.values
    THEN Outcome([c EXCEPT !.values = map_remove(c.values, key)],
                 FALSE, None, FALSE, None)
    ELSE Outcome(c, FALSE, None, FALSE, None)

\* Faulty variant of remove: clears the whole bin of the key.
remove_clears_bin(c, key) ==
    IF key \in DOMAIN c.values
    THEN Outcome([c EXCEPT !.frequency_bin[c.values[key].count] = <<>>,
                           !.values = map_remove(c.values, key)],
                 FALSE, None, FALSE, None)
    ELSE Outcome(c, FALSE, None, FALSE, None)

\* LFUCache::remove
remove(c, key) ==
    IF key \in DOMAIN c.values
    THEN LET count == c.values[key].count
             fb    == map_insert(c.frequency_bin, count,
                                 lhs_remove(entry_or_default(c.frequency_bin, count), key))
         IN Outcome([c EXCEPT !.frequency_bin = fb,
                              !.values = map_remove(c.values, key)],
                    FALSE, None, FALSE, None)
    ELSE Outcome(c, FALSE, None, FALSE, None)

\* Faulty variant of get: unwraps the lookup instead of returning None.
get_unwrap(c, key) ==
    IF key \notin DOMAIN c.values
    THEN Outcome(c, TRUE, None, FALSE, None)
    ELSE LET o == update_frequency_bin(c, key) IN
         IF o.panic THEN o
         ELSE Outcome(o.cache, FALSE, Some(o.cache.values[key].value), FALSE, None)

\* LFUCache::get
get(c, key) ==
    IF key \notin DOMAIN c.values
    THEN Outcome(c, FALSE, None, FALSE, None)
    ELSE LET o == update_frequency_bin(c, key) IN
         IF o.panic THEN o
         ELSE Outcome(o.cache, FALSE,
                      IF key \in DOMAIN o.cache.values
                      THEN Some(o.cache.values[key].value) ELSE None,
                      FALSE, None)

\* LFUCache::get_mut
get_mut(c, key) ==
    IF key \notin DOMAIN c.values
    THEN Outcome(c, FALSE, None, FALSE, None)
    ELSE LET o == update_frequency_bin(c, key) IN
         IF o.panic THEN o
         ELSE Outcome(o.cache, FALSE,
                      IF key \in DOMAIN o.cache.values
                      THEN Some(o.cache.values[key].value) ELSE None,
                      FALSE, None)

\* Faulty variant of set: a new key does not reset min_frequency to 1.
set_no_reset(c, key, value) ==
    IF key \in DOMAIN c.values
    THEN update_frequency_bin([c EXCEPT !.values[key].value = value], key)
    ELSE LET e == IF len(c) >= c.capacity THEN evict(c)
                  ELSE Outcome(c, FALSE, None, FALSE, None)
         IN IF e.panic THEN e
            ELSE LET c1 == e.cache IN
                 Outcome([c1 EXCEPT
                            !.values = map_insert(c1.values, key,
                                                  [value |-> value, count |-> 1]),
                            !.frequency_bin = map_insert(c1.frequency_bin, 1,
                                lhs_insert(entry_or_default(c1.frequency_bin, 1), key))],
                         FALSE, None, FALSE, e.evicted)

\* Faulty variant of set: a present key keeps its old value.
set_keeps_value(c, key, value) ==
    IF key \in DOMAIN c.values
    THEN update_frequency_bin(c, key)
    ELSE LET e == IF len(c) >= c.capacity THEN evict(c)
                  ELSE Outcome(c, FALSE, None, FALSE, None)
         IN IF e.panic THEN e
            ELSE LET c1 == e.cache IN
                 Outcome([c1 EXCEPT
                            !.values = map_insert(c1.values, key,
                                                  [value |-> value, count |-> 1]),
                            !.min_frequency = 1,
                            !.frequency_bin = map_insert(c1.frequency_bin, 1,
                                lhs_insert(entry_or_default(c1.frequency_bin, 1), key))],
                         FALSE, None, FALSE, e.evicted)

\* Faulty variant of set: makes room before looking whether the key is stored.
set_evicts_first(c, key, value) ==
    LET e == IF len(c) >= c.capacity THEN evict(c)
             ELSE Outcome(c, FALSE, None, FALSE, None)
    IN IF e.panic THEN e
       ELSE IF key \in DOMAIN e.cache.values
       THEN LET o == update_frequency_bin(
                         [e.cache EXCEPT !.values[key].value = value], key)
            IN Outcome(o.cache, o.panic, None, FALSE, e.evicted)
       ELSE LET c1 == e.cache IN
            Outcome([c1 EXCEPT
                       !.values = map_insert(c1.values, key,
                                             [value |-> value, count |-> 1]),
                       !.min_frequency = 1,
                       !.frequency_bin = map_insert(c1.frequency_bin, 1,
                           lhs_insert(entry_or_default(c1.frequency_bin, 1), key))],
                    FALSE, None, FALSE, e.evicted)

\* LFUCache::set
set(c, key, value) ==
    IF key \in DOMAIN c.values
    THEN update_frequency_bin([c EXCEPT !.values[key].value = value], key)
    ELSE LET e == IF len(c) >= c.capacity THEN evict(c)
                  ELSE Outcome(c, FALSE, None, FALSE, None)
         IN IF e.panic THEN e
            ELSE LET c1 == e.cache
                     vals == map_insert(c1.values, key, [value |-> value, count |-> 1])
                     fb == map_insert(c1.frequency_bin, 1,
                                      lhs_insert(entry_or_default(c1.frequency_bin, 1), key))
                 IN Outcome([c1 EXCEPT !.values = vals, !.min_frequency = 1,
                                       !.frequency_bin = fb],
                            FALSE, None, FALSE, e.evicted)

\* LFUCache::iter, run to its end: the (key, value) pairs of the store. The
\* order is the HashMap's own and is left open, so the result is their set.
iter(c) == {<<k, c.values[k].value>> : k \in DOMAIN c.values}

\* Faulty variant of index: looks the key up with get, which counts a use.
index_by_get(c, key) ==
    IF key \in DOMAIN c.values
    THEN get(c, key)
    ELSE Outcome(c, TRUE, None, FALSE, None)

\* Faulty variant of index: does not unwrap, a missing key gives None.
index_no_unwrap(c, key) ==
    IF key \in DOMAIN c.values
    THEN Outcome(c, FALSE, Some(c.values[key].value), FALSE, None)
    ELSE Outcome(c, FALSE, None, FALSE, None)

\* Index::index, cache[key]
index(c, key) ==
    IF key \in DOMAIN c.values
    THEN Outcome(c, FALSE, Some(c.values[key].value), FALSE, None)
    ELSE Outcome(c, TRUE, None, FALSE, None)

\* ------------------------------------------------------------- the history
\* recency is a history variable, not a field of the cache: the stored keys in
\* the order of their last set/get/get_mut. It is kept with Append and
\* SelectSeq alone, independently of the bins.
Touch(r, key, vals) ==
    LET others == SelectSeq(r, LAMBDA x : x # key /\ x \in DOMAIN vals)
    IN IF key \in DOMAIN vals THEN Append(others, key) ELSE others

Drop(r, vals) == SelectSeq(r, LAMBDA x : x \in DOMAIN vals)

\* key and value are the Options of the call's arguments.
Call(op, key, value, o) ==
    [op |-> op, key |-> key, value |-> value,
     present |-> (key # None /\ key \subseteq DOMAIN values),
     ret |-> o.ret, flag |-> o.flag, evicted |-> o.evicted]

\* The effect of a call with outcome o on the cache and on panicked.
Apply(o) ==
    /\ values' = o.cache.values
    /\ frequency_bin' = o.cache.frequency_bin
    /\ capacity' = o.cache.capacity
    /\ min_frequency' = o.cache.min_frequency
    /\ panicked' = o.panic

\* get, get_mut and set are the calls that use a key.
IsUse(op) == op \in {"get", "get_mut", "set"}

\* uses.since: the stored keys that a get, get_mut or set found stored since
\* the last eviction (by set or by evict). uses.again: the call has evicted
\* the very key that the call before it found stored and used.
NoUses == [since |-> {}, again |-> FALSE]

UsesAfter(op, key, o) ==
    LET kept == IF o.evicted # None THEN {} ELSE uses.since
        used == IF IsUse(op) /\ key \subseteq DOMAIN values /\ ~o.panic
                THEN key ELSE {}
    IN [since |-> (kept \cup used) \cap DOMAIN o.cache.values,
        again |-> /\ o.evicted # None
                  /\ o.evicted = last.key
                  /\ IsUse(last.op)
                  /\ last.present]

\* bin_rc[k] says which allocation the Rc<K> that a bin holds for k points to:
\* "store" when it is a clone of the Rc<K> the store holds as its map key,
\* "own" when it is another allocation. Rc<K> hashes and compares by the key,
\* so no method behaves differently for it.
\*   set of a stored key   the store keeps its Rc; the Rc::new(key) of line 137
\*                         replaces the bin's handle (lines 140, 114, 120)
\*   set of a new key      store and bin share the Rc::new(key) (lines 146, 148)
\*   get, get_mut          the bin gets a clone of the store's Rc (lines 99, 105)
RcAfter(op, key, o) ==
    [k \in DOMAIN o.cache.values |->
        IF key = Some(k) /\ op = "set" /\ k \in DOMAIN values /\ ~o.panic THEN "own"
        ELSE IF key = Some(k) /\ IsUse(op) /\ ~o.panic THEN "store"
        ELSE bin_rc[k]]

\* What a call with outcome o leaves in the recorded history.
Record(op, key, o) ==
    /\ track' = track
    /\ uses' = IF track = "uses" THEN UsesAfter(op, key, o) ELSE uses
    /\ bin_rc' = IF track = "handles" THEN RcAfter(op, key, o) ELSE bin_rc

\* A key whose count reached MaxCount is not used again: counts are usize in
\* the code and are capped here to keep the state space finite.
Usable(key) == key \in DOMAIN values => values[key].count < MaxCount

\* ------------------------------------------------------------------ actions
\* The state that with_capacity(n) leaves, with the history mode recorded.
Construct(n, mode) ==
    LET o == with_capacity(n) IN
    /\ values = o.cache.values
    /\ frequency_bin = o.cache.frequency_bin
    /\ capacity = o.cache.capacity
    /\ min_frequency = o.cache.min_frequency
    /\ panicked = o.panic
    /\ last = [op |-> "with_capacity", key |-> None, value |-> Some(n),
               present |-> FALSE, ret |-> None, flag |-> FALSE, evicted |-> None]
    /\ recency = << >>
    /\ track = mode
    /\ uses = NoUses
    /\ bin_rc = << >>

\* LFUCache::with_capacity(n), n >= 1
Init == \E n \in Capacities : Construct(n, "none")

\* LFUCache::with_capacity(n), n >= 0
InitAny == \E n \in 0..MaxCapacity : Construct(n, "none")

\* with_capacity(n), n >= 1, recording the uses since the last eviction.
InitUses == \E n \in Capacities : Construct(n, "uses")

\* with_capacity(n), n >= 1, recording the allocations of the bins' handles.
InitHandles == \E n \in Capacities : Construct(n, "handles")

SetCall ==
    \E key \in Keys, value \in Values :
        LET o == set(self, key, value) IN
        /\ ~panicked
        /\ Usable(key)
        /\ Apply(o)
        /\ last' = Call("set", Some(key), Some(value), o)
        /\ Record("set", Some(key), o)
        /\ recency' = Touch(recency, key, o.cache.values)

GetCall ==
    \E key \in Keys :
        LET o == get(self, key) IN
        /\ ~panicked
        /\ Usable(key)
        /\ Apply(o)
        /\ last' = Call("get", Some(key), None, o)
        /\ Record("get", Some(key), o)
        /\ recency' = Touch(recency, key, o.cache.values)

GetMutCall ==
    \E key \in Keys :
        LET o == get_mut(self, key) IN
        /\ ~panicked
        /\ Usable(key)
        /\ Apply(o)
        /\ last' = Call("get_mut", Some(key), None, o)
        /\ Record("get_mut", Some(key), o)
        /\ recency' = Touch(recency, key, o.cache.values)

RemoveCall ==
    \E key \in Keys :
        LET o == remove(self, key) IN
        /\ ~panicked
        /\ Apply(o)
        /\ last' = Call("remove", Some(key), None, o)
        /\ Record("remove", Some(key), o)
        /\ recency' = Drop(recency, o.cache.values)

EvictCall ==
    LET o == evict(self) IN
    /\ ~panicked
    /\ Apply(o)
    /\ last' = Call("evict", None, None, o)
    /\ Record("evict", None, o)
    /\ recency' = Drop(recency, o.cache.values)

ContainsCall ==
    \E key \in Keys :
        /\ ~panicked
        /\ last' = Call("contains", Some(key), None,
                        Outcome(self, FALSE, None, contains(self, key), None))
        /\ UNCHANGED <<values, frequency_bin, capacity, min_frequency, panicked, recency,
                       track, uses, bin_rc>>

LenCall ==
    /\ ~panicked
    /\ last' = Call("len", None, None, Outcome(self, FALSE, Some(len(self)), FALSE, None))
    /\ UNCHANGED <<values, frequency_bin, capacity, min_frequency, panicked, recency,
                   track, uses, bin_rc>>

IterCall ==
    /\ ~panicked
    /\ last' = Call("iter", None, None, Outcome(self, FALSE, Some(iter(self)), FALSE, None))
    /\ UNCHANGED <<values, frequency_bin, capacity, min_frequency, panicked, recency,
                   track, uses, bin_rc>>

IndexCall ==
    \E key \in Keys :
        LET o == index(self, key) IN
        /\ ~panicked
        /\ Apply(o)
        /\ last' = Call("index", Some(key), None, o)
        /\ Record("index", Some(key), o)
        /\ UNCHANGED recency

\* The calls that change the cache.
Next ==
    \/ SetCall
    \/ GetCall
    \/ GetMutCall
    \/ RemoveCall
    \/ EvictCall

Spec == Init /\ [][Next]_vars

\* set, get, get_mut and remove alone: evict runs only inside set.
NextCalls ==
    \/ SetCall
    \/ GetCall
    \/ GetMutCall
    \/ RemoveCall

SpecCalls == Init /\ [][NextCalls]_vars

\* The same with the queries in between.
NextAll ==
    \/ SetCall
    \/ GetCall
    \/ GetMutCall
    \/ RemoveCall
    \/ EvictCall
    \/ ContainsCall
    \/ LenCall
    \/ IterCall
    \/ IndexCall

SpecAll == Init /\ [][NextAll]_vars

\* with_capacity(n) for every n, 0 included, then the calls that change the cache.
SpecConstruct == InitAny /\ [][Next]_vars

\* Spec with the uses since the last eviction recorded.
SpecUses == InitUses /\ [][Next]_vars

\* Spec with the allocations of the bins' handles recorded.
SpecHandles == InitHandles /\ [][Next]_vars

\* ------------------------------------------------------------- properties
Stored == DOMAIN values

\* The smallest count of a stored key (the store is not empty).
MinCount(vals) == CHOOSE n \in {vals[k].count : k \in DOMAIN vals} :
                      \A k \in DOMAIN vals : n <= vals[k].count

\* The place of a stored key in the history of uses.
Pos(r, key) == CHOOSE i \in 1..Len(r) : r[i] = key

\* The step is set(key, _) of a key that is not stored, on a full cache.
SetOfNewKeyOnFull(key) ==
    /\ last'.op = "set"
    /\ last'.key = Some(key)
    /\ key \notin Stored
    /\ len(self) >= capacity

\* The step is get, get_mut or set of a stored key.
UseOfStored(key) ==
    /\ last'.op \in {"get", "get_mut", "set"}
    /\ last'.key = Some(key)
    /\ key \in Stored

\* C1: in every reachable state, whatever sequence of set, get, get_mut,
\* remove and evict calls led to it, the store holds at most capacity entries.
C1_LenAtMostCapacity == len(self) <= capacity

\* A set of a new key has evicted and left the cache full.
C1_Witness ==
    /\ last.op = "set"
    /\ last.evicted # None
    /\ len(self) = capacity
    /\ ~panicked

\* C2: a set of an absent key on a full cache evicts exactly one key, and
\* that key's count is the minimum count over the keys stored before the call.
C2_EvictsMinimumFrequency ==
    [][\A key \in Keys : SetOfNewKeyOnFull(key) =>
          /\ ~panicked'
          /\ \E e \in Stored :
                /\ Stored' = (Stored \ {e}) \cup {key}
                /\ last'.evicted = Some(e)
                /\ values[e].count = MinCount(values)
                /\ \A j \in Stored : values[e].count <= values[j].count]_vars

\* A set has evicted while a key used more often stayed.
C2_Witness ==
    /\ last.op = "set"
    /\ last.evicted # None
    /\ \E j \in Stored : values[j].count > 1

\* C3: when several stored keys tie at the minimum count, the key a set
\* evicts is the one of them whose last set/get/get_mut is the oldest; the
\* queries in between change nothing of that order.
C3_EvictsLeastRecentlyUsedOfTie ==
    [][\A key \in Keys : (SetOfNewKeyOnFull(key) /\ ~panicked') =>
          LET tied == {j \in Stored : values[j].count = MinCount(values)} IN
          \A e \in Stored \ Stored' :
              /\ e \in tied
              /\ \A j \in tied \ {e} : Pos(recency, e) < Pos(recency, j)]_vars

\* A set has evicted one of several keys tied at count 1: another key of
\* count 1 is still stored next to the new one.
C3_Witness ==
    /\ last.op = "set"
    /\ last.evicted # None
    /\ \E j \in Stored : Some(j) # last.key /\ values[j].count = 1

\* C4: remove(key) returns true when the key was stored just before the
\* call and false when it was not.
C4_RemoveReportsPresence ==
    last.op = "remove" => last.flag = last.present

\* C5: after every set, get, get_mut or remove that leaves the store
\* non-empty, min_frequency is the smallest count of a stored key, which is
\* the smallest count whose bin is not empty.
C5_MinFrequencyIsSmallest ==
    (last.op \in {"set", "get", "get_mut", "remove"} /\ Stored # {} /\ ~panicked) =>
        /\ min_frequency = MinCount(values)
        /\ min_frequency \in DOMAIN frequency_bin
        /\ frequency_bin[min_frequency] # <<>>
        /\ \A f \in DOMAIN frequency_bin :
              frequency_bin[f] # <<>> => min_frequency <= f

\* C6: the store and the frequency bins agree in every reachable state: a
\* stored key of count f is in bin f and in no other bin, and every member
\* of a bin f is a stored key of count f.
C6_StoreAndBinsAgree ==
    /\ \A k \in Stored :
          /\ values[k].count \in DOMAIN frequency_bin
          /\ \A f \in DOMAIN frequency_bin :
                lhs_contains(frequency_bin[f], k) <=> (f = values[k].count)
    /\ \A f \in DOMAIN frequency_bin :
          \A i \in 1..Len(frequency_bin[f]) :
              /\ frequency_bin[f][i] \in Stored
              /\ values[frequency_bin[f][i]].count = f
              /\ \A j \in 1..Len(frequency_bin[f]) :
                    frequency_bin[f][i] = frequency_bin[f][j] => i = j

\* A remove of a stored key has emptied bin 1 and left a key in bin 2.
C6_Witness ==
    /\ last.op = "remove"
    /\ last.present
    /\ 1 \in DOMAIN frequency_bin
    /\ frequency_bin[1] = <<>>
    /\ \E k \in Stored : values[k].count = 2

\* C7: set(k, v) never panics; right after it k is stored with value v, the
\* key it evicted (if any) is not k, and a get(k) that follows returns v.
C7_SetStoresValue ==
    [][/\ \A key \in Keys, value \in Values :
             (last'.op = "set" /\ last'.key = Some(key) /\ last'.value = Some(value)) =>
                 /\ ~panicked'
                 /\ key \in Stored'
                 /\ values'[key].value = value
                 /\ last'.evicted # Some(key)
       /\ (last.op = "set" /\ last'.op = "get" /\ last'.key = last.key) =>
             last'.ret = last.value]_vars

\* A set of a new key on a full cache has stored its value and evicted
\* another key.
C7_Witness ==
    /\ last.op = "set"
    /\ ~last.present
    /\ \E key \in Stored, e \in Keys \ Stored :
          /\ last.key = Some(key)
          /\ last.evicted = Some(e)
          /\ last.value = Some(values[key].value)

\* C8: a key has count 1 right after the set that inserts it, its count
\* grows by exactly 1 with each get, get_mut or set of it while it is stored,
\* and the count of a key that stays stored never decreases.
C8_CountStartsAtOneAndGrowsByOne ==
    [][\A key \in Keys :
          /\ (key \notin Stored /\ key \in Stored') => values'[key].count = 1
          /\ (key \in Stored /\ key \in Stored') =>
                values'[key].count >= values[key].count
          /\ UseOfStored(key) =>
                /\ key \in Stored'
                /\ values'[key].count = values[key].count + 1]_vars

\* A get_mut has taken a stored key from count 1 to count 2.
C8_Witness ==
    /\ last.op = "get_mut"
    /\ last.present
    /\ \E key \in Stored : last.key = Some(key) /\ values[key].count = 2

\* C9: remove(k) of a stored key k leaves k absent (contains(k) is false, a
\* get(k) that follows returns None), len() one less, and the value, the
\* count and the order within its bin of every other key as they were.
C9_RemoveFrame ==
    [][/\ \A key \in Keys :
             (last'.op = "remove" /\ last'.key = Some(key) /\ key \in Stored) =>
                 /\ ~panicked'
                 /\ ~contains(self', key)
                 /\ len(self') = len(self) - 1
                 /\ Stored' = Stored \ {key}
                 /\ \A j \in Stored' : values'[j] = values[j]
                 /\ DOMAIN frequency_bin' = DOMAIN frequency_bin
                 /\ \A f \in DOMAIN frequency_bin :
                       frequency_bin'[f] = SelectSeq(frequency_bin[f], LAMBDA x : x # key)
       /\ (last.op = "remove" /\ last'.op = "get" /\ last'.key = last.key) =>
             last'.ret = None]_vars

\* A remove has taken a stored key out of a full cache; another key stays.
C9_Witness ==
    /\ last.op = "remove"
    /\ last.present
    /\ Stored # {}
    /\ len(self) + 1 = capacity
    /\ ~panicked

\* C10: get, get_mut and remove of a key that is not stored do not panic,
\* return None / false, and leave the store, every bin and its order,
\* min_frequency and capacity as they were.
C10_MissChangesNothing ==
    [][\A key \in Keys :
          (/\ last'.op \in {"get", "get_mut", "remove"}
           /\ last'.key = Some(key)
           /\ key \notin Stored) =>
              /\ ~panicked'
              /\ last'.ret = None
              /\ last'.flag = FALSE
              /\ UNCHANGED <<values, frequency_bin, min_frequency, capacity>>]_vars

\* A get has missed on a cache that stores other keys.
C10_Witness ==
    /\ last.op = "get"
    /\ ~last.present
    /\ last.ret = None
    /\ Stored # {}
    /\ ~panicked

\* The step evicts key e, inside set or by a direct evict.
Evicts(e) == last'.evicted = Some(e) /\ e \in Stored

\* Key e is the only stored key of the smallest count.
OnlyMinimum(e) == \A j \in Stored \ {e} : values[j].count > values[e].count

\* C11: when an eviction comes right after the get, get_mut or set that used
\* a stored key k, with no call in between, it evicts k only when k alone
\* holds the smallest count of the stored keys.
C11_UsedKeySparedByImmediateEviction ==
    [][\A k \in Keys :
          (IsUse(last.op) /\ last.present /\ last.key = Some(k) /\ Evicts(k)) =>
              OnlyMinimum(k)]_vars

\* An eviction has taken the key that the call before it had just used.
C11_Witness == uses.again /\ last.evicted # None /\ ~panicked

\* C11 as stated: the next eviction after a use of k, whatever calls come in
\* between, evicts k only when k alone holds the smallest count.
C11_UsedKeySparedByNextEviction ==
    [][\A k \in Keys : (k \in uses.since /\ Evicts(k)) => OnlyMinimum(k)]_vars

\* C12: whenever the store is full, so that a set of a new key would call
\* evict, the bin at min_frequency exists and is not empty: the unwraps of
\* evict do not panic inside set.
C12_FullCacheHasEvictionCandidate ==
    len(self) >= capacity =>
        /\ min_frequency \in DOMAIN frequency_bin
        /\ frequency_bin[min_frequency] # <<>>

\* A full cache whose bin 1 was emptied by uses: min_frequency has moved to 2.
C12_Witness ==
    /\ len(self) = capacity
    /\ min_frequency = 2
    /\ 1 \in DOMAIN frequency_bin
    /\ frequency_bin[1] = <<>>
    /\ IsUse(last.op)
    /\ ~panicked

\* C13: with_capacity(0) panics and leaves no cache to call; with_capacity(n),
\* n >= 1, returns an empty cache of capacity n, and no call changes capacity.
C13_Construction ==
    /\ [](last.op = "with_capacity" =>
            \E n \in 0..MaxCapacity :
                /\ last.value = Some(n)
                /\ panicked <=> (n = 0)
                /\ n >= 1 => /\ capacity = n
                             /\ len(self) = 0
                             /\ \A k \in Keys : ~contains(self, k))
    /\ [][capacity' = capacity /\ ~panicked]_vars

\* with_capacity(0) has panicked.
C13_Witness ==
    /\ last.op = "with_capacity"
    /\ last.value = Some(0)
    /\ panicked

\* The step is one of the queries.
IsQuery(op) == op \in {"contains", "len", "iter", "index"}

\* C14: contains, len, iter and cache[key] change no value, no count, no bin
\* and no order within a bin, and not min_frequency: the key that a later
\* eviction takes, Head(frequency_bin[min_frequency]), is the same before and
\* after them.
C14_QueriesChangeNothing ==
    [][IsQuery(last'.op) =>
          /\ UNCHANGED <<values, frequency_bin, min_frequency, capacity>>
          /\ evict(self').evicted = evict(self).evicted]_vars

\* cache[key] has returned the value of a stored key whose bin is not the
\* one at min_frequency.
C14_Witness ==
    /\ last.op = "index"
    /\ last.present
    /\ ~panicked
    /\ \E k \in Stored : last.key = Some(k) /\ values[k].count # min_frequency
    /\ len(self) = capacity

\* C15: cache[k] returns the stored value of k when k is stored, so it
\* returns v right after set(k, v), and it panics exactly when k is not stored.
C15_IndexReturnsValueOrPanics ==
    [][/\ \A k \in Keys :
             (last'.op = "index" /\ last'.key = Some(k)) =>
                 /\ panicked' <=> (k \notin Stored)
                 /\ k \in Stored => last'.ret = Some(values[k].value)
       /\ (last.op = "set" /\ last'.op = "index" /\ last'.key = last.key) =>
             (~panicked' /\ last'.ret = last.value)]_vars

\* cache[k] has panicked on a key that is not stored, next to stored keys.
C15_Witness ==
    /\ last.op = "index"
    /\ ~last.present
    /\ panicked
    /\ Stored # {}

\* A bin without key k; a count that has no bin yet counts as an empty bin.
BinWithout(fb, f, k) ==
    IF f \in DOMAIN fb THEN SelectSeq(fb[f], LAMBDA x : x # k) ELSE <<>>

\* C16: set(k, v) of a stored key k evicts nothing, also on a full cache:
\* the stored keys and len() stay, every other key keeps its value, its count
\* and its order within its bin, and min_frequency changes only when k's old
\* bin was the one at min_frequency and k was its last member.
C16_SetOfStoredKeyFrame ==
    [][\A k \in Keys :
          (last'.op = "set" /\ last'.key = Some(k) /\ k \in Stored) =>
              /\ ~panicked'
              /\ last'.evicted = None
              /\ Stored' = Stored
              /\ len(self') = len(self)
              /\ \A j \in Stored \ {k} : values'[j] = values[j]
              /\ \A f \in DOMAIN frequency_bin \cup DOMAIN frequency_bin' :
                    BinWithout(frequency_bin', f, k) = BinWithout(frequency_bin, f, k)
              /\ min_frequency' # min_frequency =>
                    /\ values[k].count = min_frequency
                    /\ BinWithout(frequency_bin, min_frequency, k) = <<>>]_vars

\* A set has overwritten a stored key of a full cache that holds another key.
C16_Witness ==
    /\ last.op = "set"
    /\ last.present
    /\ last.evicted = None
    /\ len(self) = capacity
    /\ len(self) > 1
    /\ ~panicked

\* The step inserts a new key by set.
InsertOfNewKey ==
    /\ last'.op = "set"
    /\ \E k \in Keys \ Stored : last'.key = Some(k)
    /\ ~panicked'

\* The step is a use of a stored key that was the last member of the bin at
\* min_frequency.
UseOfLastMinimum ==
    \E k \in Stored :
        /\ UseOfStored(k)
        /\ values[k].count = min_frequency
        /\ BinWithout(frequency_bin, min_frequency, k) = <<>>
        /\ ~panicked'

\* C17: min_frequency becomes 1 when set inserts a new key, grows by exactly 1
\* when a get, get_mut or set uses a stored key of count min_frequency that
\* was the last member of its bin, and is left as it is by every other call:
\* other uses, remove, evict and the queries.
C17_MinFrequencyChanges ==
    [][IF InsertOfNewKey THEN min_frequency' = 1
       ELSE IF UseOfLastMinimum THEN min_frequency' = min_frequency + 1
       ELSE min_frequency' = min_frequency]_vars

\* A use has emptied the bin at min_frequency and moved min_frequency to 2.
C17_Witness ==
    /\ IsUse(last.op)
    /\ last.present
    /\ min_frequency = 2
    /\ \A k \in Stored : values[k].count = 2
    /\ len(self) = 2

\* C18: a direct evict() on a non-empty store finds the bin at min_frequency
\* non-empty, does not panic, and removes exactly one key, the oldest member
\* of that bin, from the bin and from the store.
C18_DirectEvictSucceeds ==
    [][(last'.op = "evict" /\ Stored # {}) =>
          /\ ~panicked'
          /\ min_frequency \in DOMAIN frequency_bin
          /\ frequency_bin[min_frequency] # <<>>
          /\ LET oldest == Head(frequency_bin[min_frequency]) IN
             /\ last'.evicted = Some(oldest)
             /\ Stored' = Stored \ {oldest}
             /\ len(self') = len(self) - 1
             /\ frequency_bin' =
                   [frequency_bin EXCEPT ![min_frequency] = Tail(@)]]_vars

\* C19: min_frequency is at most the count of every stored key in every
\* reachable state, and an eviction that succeeds takes a key of the
\* smallest count: no key of a smaller count stays behind.
C19_MinFrequencyIsLowerBound ==
    [][/\ \A k \in Stored' : min_frequency' <= values'[k].count
       /\ \A e \in Stored :
             (last'.evicted = Some(e) /\ ~panicked') =>
                 /\ e \notin Stored'
                 /\ \A j \in Stored : values[e].count <= values[j].count]_vars

\* min_frequency lags below the smallest count of a stored key.
C19_Witness ==
    /\ Stored # {}
    /\ min_frequency < MinCount(values)
    /\ ~panicked

\* C20: in every reachable state the Rc<K> that a bin holds for a stored key
\* is the same allocation as the Rc<K> the store holds for it.
C20_BinSharesTheStoresHandle ==
    track = "handles" => \A k \in Stored : bin_rc[k] = "store"

====
